---- MODULE Spec2Model ----
(***************************************************************************)
(* Model of run_sumo_ca.py: the training / evaluation driver.              *)
(*                                                                         *)
(* The script parses its options, binds the Agent class chosen by --algo,  *)
(* constructs the agent and then alternates training episodes with         *)
(* periodic evaluation blocks, logging scalars to a SummaryWriter and      *)
(* saving the policy when an evaluation average reaches the threshold.     *)
(*                                                                         *)
(* agent.run, the environment and the writer are external: agent.run is a  *)
(* nondeterministic choice of (steps, return, collision) or an exception.  *)
(* Returns are integers and every quotient the script computes with "/"    *)
(* is kept as an exact fraction <<numerator, denominator>>.                *)
(***************************************************************************)
EXTENDS Integers, Sequences, FiniteSets, TLC

(* ---------------- bounds of the model ---------------- *)
MaxTrainingEps == 4
MaxEvalPerTrain == 3
MaxEvaluationEps == 2
\* the experiments the model runs make at most this many agent.run calls
MaxRuns == 6

(* ---------------- program constants ---------------- *)
\* default of --max_step
max_step == 200
\* default of --seed
seed == 0
\* len() of the default --model_path
DefaultModelPathLen == 57

\* the names "from env_singlecar2 import *" binds: the environment adapter
EnvModuleExports == {"ENV"}

KnownAlgos == {"vpg", "npg", "trpo", "ppo", "ddpg", "td3", "sac", "asac", "tac", "atac"}

\* the identifiers the model runs with: two recognised ones (one of them
\* logs Train/Alpha) and one that no branch of the import chain names
AlgoChoices == {"td3", "asac", "dqn"}

\* threshold_return is parsed with type=int
Thresholds == {0, 2}

\* what agent.run can hand back: <<steps taken, episodic return, collision
\* flag>>. Returns of either sign come with either flag; an episode with a
\* collision ends after one step, one without runs to the max_step cap
Returns == {-1, 2}
Outcomes == {<<IF coll THEN 1 ELSE max_step, ret, coll>> :
                ret \in Returns, coll \in BOOLEAN}

(* ---------------- exact fractions for Python's "/" ---------------- *)
Frac(n, d) == <<n, d>>
FracEq(a, b) == a[1] * b[2] = b[1] * a[2]
\* a >= b for fractions with positive denominators
FracGE(a, b) == a[1] * b[2] >= b[1] * a[2]

\* round(x, 2) as an integer number of hundredths, ties to even
Round2(a) ==
    LET n == 100 * a[1]
        d == a[2]
        q == n \div d
        r == n % d
    IN  IF 2 * r < d THEN q
        ELSE IF 2 * r > d THEN q + 1
        ELSE IF q % 2 = 0 THEN q ELSE q + 1

RECURSIVE SumSeq(_)
SumSeq(s) == IF s = <<>> THEN 0 ELSE s[1] + SumSeq(Tail(s))

VARIABLES
    args,                 \* the parsed options (never changed after parsing)
    pc,                   \* position of the script
    AgentClass,           \* module the name Agent is bound to, or "unbound"
    agent,                \* the agent object: constructed, kwargs, eval_mode
    episode,              \* loop variable of the training loop
    i,                    \* loop variable of the evaluation loop
    train_num_steps,
    train_sum_returns,
    train_num_episodes,
    train_num_collision,
    train_average_return,
    eval_sum_returns,
    eval_num_episodes,
    eval_num_collision,
    eval_average_return,
    writer,               \* last scalar written per tag: <<value, step>>
    stdout,               \* the fields of the last block printed
    save_model_dir,       \* whether ./tests/save_model exists
    ckpts,                \* the paths torch.save was called with, in order
    \* history variables (not program state)
    calls,                \* agent.run calls started: by the training loop, by blocks
    trainHist,            \* <<return, collision, eval_mode>> of each training episode
    evalHist,             \* <<return, eval_mode>> of the block's episodes
    blocks,               \* evaluation blocks entered
    scalars,              \* number of add_scalar calls made
    evalSteps,            \* steps of the Eval/EpisodeReturns points, in order
    error                 \* the exception that ended the script, or "none"

vars == <<args, pc, AgentClass, agent, episode, i, train_num_steps,
          train_sum_returns, train_num_episodes, train_num_collision,
          train_average_return, eval_sum_returns, eval_num_episodes,
          eval_num_collision, eval_average_return, writer, stdout,
          save_model_dir, ckpts, calls, trainHist, evalHist, blocks, scalars,
          evalSteps, error>>

trainVars == <<train_num_steps, train_sum_returns, train_num_episodes,
               train_num_collision, train_average_return>>
evalVars == <<eval_sum_returns, eval_num_episodes, eval_num_collision,
              eval_average_return>>
outVars == <<writer, stdout, save_model_dir, ckpts, scalars, evalSteps>>

Tags == {"Train/AverageReturns", "Train/EpisodeReturns", "Train/Alpha",
         "Train/CollisionRate", "Eval/EpisodeReturns", "Eval/AverageReturns",
         "Eval/CollisionRate"}

\* a scalar value is a fraction; "never written" is step -1 of value 0/0
NoScalar == <<Frac(0, 0), -1>>
\* agent.alpha is the agent's own number; the model keeps it as 1/2
Alpha == Frac(1, 2)

\* writer.add_scalar(tag, value, step) for each <<tag, value, step>> of seq,
\* in order: the writer keeps the last point of each tag
RECURSIVE AddScalars(_, _)
AddScalars(w, seq) ==
    IF seq = <<>> THEN w
    ELSE AddScalars([w EXCEPT ![seq[1][1]] = <<seq[1][2], seq[1][3]>>], Tail(seq))

(* ---------------- module level: lines 12-55 ---------------- *)
\* the chain closed by an else that imports a default agent
ImportWithDefault(algo) == IF algo \in KnownAlgos THEN "agents.sac" ELSE "agents.vpg"

\* the if/elif chain of imports; it has no else
ImportOf(algo) ==
    CASE algo = "vpg" -> "agents.vpg"
      [] algo = "npg" -> "agents.trpo"
      [] algo = "trpo" -> "agents.trpo"
      [] algo = "ppo" -> "agents.ppo"
      [] algo = "ddpg" -> "agents.ddpg"
      [] algo = "td3" -> "agents.td3"
      [] algo \in {"sac", "asac", "tac", "atac"} -> "agents.sac"
      [] OTHER -> "none"

\* the keyword arguments main() passes to Agent(...)
CtorKwargs(algo) ==
    CASE algo \in {"ddpg", "td3"} -> "none"
      [] algo = "sac" -> IF DefaultModelPathLen > 5 THEN "alpha=0.5,load_model=True"
                                                     ELSE "alpha=0.5"
      [] algo = "asac" -> "automatic_entropy_tuning=True"
      [] algo = "tac" -> "alpha=0.5,log_type=log-q,entropic_index=1.2"
      [] algo = "atac" -> "log_type=log-q,entropic_index=1.2,automatic_entropy_tuning=True"
      [] OTHER -> "none"

\* training episodes plus the evaluation episodes their boundaries ask for
RunsAskedFor(a) ==
    a.training_eps
    + (IF a.eval_per_train = 0 THEN 0
       ELSE a.evaluation_eps * (a.training_eps \div a.eval_per_train))

\* the option records the model starts from
Configs ==
    {a \in [algo : AlgoChoices,
            training_eps : 0..MaxTrainingEps,
            eval_per_train : 0..MaxEvalPerTrain,
            evaluation_eps : 0..MaxEvaluationEps,
            threshold_return : Thresholds,
            tensorboard : BOOLEAN] :
        RunsAskedFor(a) <= MaxRuns}

Init ==
    /\ args \in Configs
    /\ pc = "import"
    /\ AgentClass = IF "Agent" \in EnvModuleExports THEN "env_singlecar2"
                                                  ELSE "unbound"
    /\ agent = [constructed |-> FALSE, kwargs |-> "none", eval_mode |-> FALSE]
    /\ episode = 0
    /\ i = 0
    /\ train_num_steps = 0
    /\ train_sum_returns = 0
    /\ train_num_episodes = 0
    /\ train_num_collision = 0
    /\ train_average_return = Frac(0, 1)
    /\ eval_sum_returns = 0
    /\ eval_num_episodes = 0
    /\ eval_num_collision = 0
    /\ eval_average_return = Frac(0, 1)
    /\ writer = [t \in Tags |-> NoScalar]
    /\ stdout = <<>>
    /\ save_model_dir = FALSE
    /\ ckpts = <<>>
    /\ calls = [train |-> 0, eval |-> 0]
    /\ trainHist = <<>>
    /\ evalHist = <<>>
    /\ blocks = 0
    /\ scalars = 0
    /\ evalSteps = <<>>
    /\ error = "none"

\* lines 36-55: bind Agent (or leave it unbound)
ImportAgent ==
    /\ pc = "import"
    /\ AgentClass' = IF ImportOf(args.algo) = "none" THEN AgentClass
                                                     ELSE ImportOf(args.algo)
    /\ pc' = "main"
    /\ UNCHANGED <<args, agent, episode, i, trainVars, evalVars, outVars,
                   calls, trainHist, evalHist, blocks, error>>

(* ---------------- main(): lines 58-111 ---------------- *)
\* Agent(...) is evaluated in the branch the algorithm selects; every branch
\* calls the name Agent, which raises NameError while it is unbound
AgentBound == AgentClass # "unbound"

\* the environment, the seeds, the agent, the writer and the zeroed counters
CreateAgent ==
    /\ pc = "main"
    /\ AgentBound
    /\ \E mode \in BOOLEAN :
          agent' = [constructed |-> TRUE, kwargs |-> CtorKwargs(args.algo),
                    eval_mode |-> mode]
    /\ pc' = "loop"
    /\ UNCHANGED <<args, AgentClass, episode, i, trainVars, evalVars, outVars,
                   calls, trainHist, evalHist, blocks, error>>

CreateAgentFails ==
    /\ pc = "main"
    /\ ~AgentBound
    /\ pc' = "failed"
    /\ error' = "NameError"
    /\ UNCHANGED <<args, AgentClass, agent, episode, i, trainVars, evalVars,
                   outVars, calls, trainHist, evalHist, blocks>>

(* ---------------- the training loop: lines 114-134 ---------------- *)
\* train_sum_returns / train_num_episodes if train_num_episodes > 0 else 0.0
Average(sum, n) == IF n > 0 THEN Frac(sum, n) ELSE Frac(0, 1)

\* the scalars lines 129-133 write for one training episode
TrainScalars(avg, ret, ep) ==
    IF ~args.tensorboard THEN <<>>
    ELSE <<<<"Train/AverageReturns", avg, ep>>,
           <<"Train/EpisodeReturns", Frac(ret, 1), ep>>>>
         \o (IF args.algo = "asac" \/ args.algo = "atac"
             THEN <<<<"Train/Alpha", Alpha, ep>>>> ELSE <<>>)

\* "=" written for "+="
TrainSumAssigned(sum, ret) == ret
TrainCollisionsAssigned(n, coll) == IF coll THEN 1 ELSE 0

\* the counters after an episode that returned (steps, ret, coll)
TrainSum(sum, ret) == sum + ret
TrainCount(n) == n + 1
TrainCollisions(n, coll) == IF coll THEN n + 1 ELSE n

\* the range written without the "+ 1"
MoreEpisodesShort(ep) == ep + 1 < args.training_eps

\* range(1, args.training_eps + 1) has a value after ep
MoreEpisodes(ep) == ep < args.training_eps

\* the flag left as the last block set it
TrainModeKept == agent.eval_mode

\* agent.eval_mode after line 116
TrainMode == FALSE

\* one training episode that agent.run completes
TrainEpisode ==
    /\ pc = "loop"
    /\ MoreEpisodes(episode)
    /\ \E o \in Outcomes :
          LET steps == o[1]
              ret == o[2]
              coll == o[3]
              ep == episode + 1
              sum == TrainSum(train_sum_returns, ret)
              n == TrainCount(train_num_episodes)
              avg == Average(sum, n)
              out == TrainScalars(avg, ret, ep)
          IN  /\ episode' = ep
              /\ agent' = [agent EXCEPT !.eval_mode = TrainMode]
              /\ train_num_collision' = TrainCollisions(train_num_collision, coll)
              /\ train_num_steps' = train_num_steps + steps
              /\ train_sum_returns' = sum
              /\ train_num_episodes' = n
              /\ train_average_return' = avg
              /\ writer' = AddScalars(writer, out)
              /\ scalars' = scalars + Len(out)
              /\ trainHist' = Append(trainHist, <<ret, coll, TrainMode>>)
              /\ calls' = [calls EXCEPT !.train = @ + 1]
    /\ pc' = "check"
    /\ UNCHANGED <<args, AgentClass, i, evalVars, stdout, save_model_dir, ckpts,
                   evalHist, blocks, evalSteps, error>>

\* the exception caught and the episode skipped
TrainRunSkipped ==
    /\ pc = "loop"
    /\ MoreEpisodes(episode)
    /\ episode' = episode + 1
    /\ agent' = [agent EXCEPT !.eval_mode = TrainMode]
    /\ calls' = [calls EXCEPT !.train = @ + 1]
    /\ pc' = "loop"
    /\ error' = "RunError"
    /\ UNCHANGED <<args, AgentClass, i, trainVars, evalVars, outVars, trainHist,
                   evalHist, blocks>>

\* agent.run raises in a training episode: nothing catches it
TrainRunFails ==
    /\ pc = "loop"
    /\ MoreEpisodes(episode)
    /\ episode' = episode + 1
    /\ agent' = [agent EXCEPT !.eval_mode = TrainMode]
    /\ calls' = [calls EXCEPT !.train = @ + 1]
    /\ pc' = "failed"
    /\ error' = "RunError"
    /\ UNCHANGED <<args, AgentClass, i, trainVars, evalVars, outVars, trainHist,
                   evalHist, blocks>>

\* range(1, training_eps + 1) is exhausted
LoopExit ==
    /\ pc = "loop"
    /\ ~MoreEpisodes(episode)
    /\ pc' = "done"
    /\ UNCHANGED <<args, AgentClass, agent, episode, i, trainVars, evalVars,
                   outVars, calls, trainHist, evalHist, blocks, error>>

(* ---------------- the evaluation test: lines 136-144 ---------------- *)
\* the test with the episode counted from 0
EvalDueZeroIndexed(ep, per) == ep > 0 /\ (ep - 1) % per = 0

\* episode > 0 and episode % args.eval_per_train == 0 (eval_per_train # 0)
EvalDue(ep, per) == ep > 0 /\ ep % per = 0

\* episode % 0 raises ZeroDivisionError
EvalCheckFails ==
    /\ pc = "check"
    /\ args.eval_per_train = 0
    /\ pc' = "failed"
    /\ error' = "ZeroDivisionError"
    /\ UNCHANGED <<args, AgentClass, agent, episode, i, trainVars, evalVars,
                   outVars, calls, trainHist, evalHist, blocks>>

SkipEval ==
    /\ pc = "check"
    /\ args.eval_per_train # 0
    /\ ~EvalDue(episode, args.eval_per_train)
    /\ pc' = "loop"
    /\ UNCHANGED <<args, AgentClass, agent, episode, i, trainVars, evalVars,
                   outVars, calls, trainHist, evalHist, blocks, error>>

\* the rate taken over the length of an evaluation block
BoundaryScalarsOverEvalEps(coll, ep) ==
    IF ~args.tensorboard \/ args.evaluation_eps = 0 THEN <<>>
    ELSE <<<<"Train/CollisionRate", Frac(coll, args.evaluation_eps), ep>>>>

\* the scalar line 138 writes at the boundary
BoundaryScalars(coll, ep) ==
    IF ~args.tensorboard THEN <<>>
    ELSE <<<<"Train/CollisionRate", Frac(coll, args.eval_per_train), ep>>>>

\* the counter left as it is
KeepCollisions(n) == n

\* train_num_collision after line 139
ResetCollisions(n) == 0

\* an evaluation accumulator carried over from the block before
KeepAccumulator(old) == old

\* eval_sum_returns, eval_num_episodes, eval_num_collision after lines 142-144
ResetAccumulator(old) == 0

\* lines 137-144: the training collision rate, the reset, eval_mode, and the
\* evaluation accumulators
EnterEval ==
    /\ pc = "check"
    /\ args.eval_per_train # 0
    /\ EvalDue(episode, args.eval_per_train)
    /\ LET out == BoundaryScalars(train_num_collision, episode)
       IN  /\ writer' = AddScalars(writer, out)
           /\ scalars' = scalars + Len(out)
    /\ train_num_collision' = ResetCollisions(train_num_collision)
    /\ agent' = [agent EXCEPT !.eval_mode = TRUE]
    /\ eval_sum_returns' = ResetAccumulator(eval_sum_returns)
    /\ eval_num_episodes' = ResetAccumulator(eval_num_episodes)
    /\ eval_num_collision' = ResetAccumulator(eval_num_collision)
    /\ i' = 0
    /\ evalHist' = <<>>
    /\ blocks' = blocks + 1
    /\ pc' = "eval"
    /\ UNCHANGED <<args, AgentClass, episode, train_num_steps, train_sum_returns,
                   train_num_episodes, train_average_return, eval_average_return,
                   stdout, save_model_dir, ckpts, calls, trainHist, evalSteps,
                   error>>

(* ---------------- the evaluation block: lines 145-171 ---------------- *)
\* the index counted on from the training episode
EvalStepIndexAfter(ep, idx) == ep + idx

\* the scalar line 153 writes for evaluation episode number idx (from 0)
EvalStepIndex(ep, idx) == ep - args.evaluation_eps + idx

EvalEpisodeScalars(ret, ep, idx) ==
    IF ~args.tensorboard THEN <<>>
    ELSE <<<<"Eval/EpisodeReturns", Frac(ret, 1), EvalStepIndex(ep, idx)>>>>

EvalSum(sum, ret) == sum + ret

\* the evaluation episode also counted in the training aggregate
EvalEpisodeCountedAsTraining ==
    /\ pc = "eval"
    /\ i < args.evaluation_eps
    /\ \E o \in Outcomes :
          LET ret == o[2]
              coll == o[3]
              out == EvalEpisodeScalars(ret, episode, i)
          IN  /\ eval_sum_returns' = EvalSum(eval_sum_returns, ret)
              /\ eval_num_episodes' = eval_num_episodes + 1
              /\ train_sum_returns' = train_sum_returns + ret
              /\ train_num_episodes' = train_num_episodes + 1
              /\ eval_num_collision' = IF coll THEN eval_num_collision + 1
                                               ELSE eval_num_collision
              /\ writer' = AddScalars(writer, out)
              /\ scalars' = scalars + Len(out)
              /\ evalSteps' = evalSteps \o [k \in 1..Len(out) |-> out[k][3]]
              /\ evalHist' = Append(evalHist, <<ret, agent.eval_mode>>)
    /\ calls' = [calls EXCEPT !.eval = @ + 1]
    /\ i' = i + 1
    /\ UNCHANGED <<args, pc, AgentClass, agent, episode, train_num_steps,
                   train_num_collision, train_average_return,
                   eval_average_return, stdout, save_model_dir, ckpts,
                   trainHist, blocks, error>>

\* one evaluation episode that agent.run completes
EvalEpisode ==
    /\ pc = "eval"
    /\ i < args.evaluation_eps
    /\ \E o \in Outcomes :
          LET ret == o[2]
              coll == o[3]
              out == EvalEpisodeScalars(ret, episode, i)
          IN  /\ eval_sum_returns' = EvalSum(eval_sum_returns, ret)
              /\ eval_num_episodes' = eval_num_episodes + 1
              /\ eval_num_collision' = IF coll THEN eval_num_collision + 1
                                               ELSE eval_num_collision
              /\ writer' = AddScalars(writer, out)
              /\ scalars' = scalars + Len(out)
              /\ evalSteps' = evalSteps \o [k \in 1..Len(out) |-> out[k][3]]
              /\ evalHist' = Append(evalHist, <<ret, agent.eval_mode>>)
    /\ calls' = [calls EXCEPT !.eval = @ + 1]
    /\ i' = i + 1
    /\ UNCHANGED <<args, pc, AgentClass, agent, episode, trainVars,
                   eval_average_return, stdout, save_model_dir, ckpts,
                   trainHist, blocks, error>>

\* agent.run raises in an evaluation episode: nothing catches it
EvalRunFails ==
    /\ pc = "eval"
    /\ i < args.evaluation_eps
    /\ calls' = [calls EXCEPT !.eval = @ + 1]
    /\ pc' = "failed"
    /\ error' = "RunError"
    /\ UNCHANGED <<args, AgentClass, agent, episode, i, trainVars, evalVars,
                   outVars, trainHist, evalHist, blocks>>

\* lines 162-167: what is printed before the collision rate (averages in
\* hundredths; the OtherLogs and Time lines, which show the agent's own
\* diagnostics and the wall clock, are left out)
PrintedHead(avg) ==
    <<<<"Steps", train_num_steps>>,
      <<"Episodes", train_num_episodes>>,
      <<"AverageReturn", Round2(train_average_return)>>,
      <<"EvalEpisodes", eval_num_episodes>>,
      <<"EvalAverageReturn", Round2(avg)>>>>

\* lines 155-171 with evaluation_eps # 0: the average, the two summary
\* scalars and the printed block
EvalSummary ==
    /\ pc = "eval"
    /\ i >= args.evaluation_eps
    /\ args.evaluation_eps # 0
    /\ LET avg == Average(eval_sum_returns, eval_num_episodes)
           rate == Frac(eval_num_collision, args.evaluation_eps)
           out == IF ~args.tensorboard THEN <<>>
                  ELSE <<<<"Eval/AverageReturns", avg, episode>>,
                         <<"Eval/CollisionRate", rate, episode>>>>
       IN  /\ eval_average_return' = avg
           /\ writer' = AddScalars(writer, out)
           /\ scalars' = scalars + Len(out)
           /\ stdout' = Append(PrintedHead(avg), <<"CollisionRate", Round2(rate)>>)
    /\ pc' = "save"
    /\ UNCHANGED <<args, AgentClass, agent, episode, i, trainVars,
                   eval_sum_returns, eval_num_episodes, eval_num_collision,
                   save_model_dir, ckpts, calls, trainHist, evalHist, blocks,
                   evalSteps, error>>

\* the rate of an empty block guarded like its average: 0.0, and on to the
\* checkpoint decision
EvalSummaryRateGuarded ==
    /\ pc = "eval"
    /\ i >= args.evaluation_eps
    /\ args.evaluation_eps = 0
    /\ LET avg == Average(eval_sum_returns, eval_num_episodes)
           rate == Frac(0, 1)
           out == IF ~args.tensorboard THEN <<>>
                  ELSE <<<<"Eval/AverageReturns", avg, episode>>,
                         <<"Eval/CollisionRate", rate, episode>>>>
       IN  /\ eval_average_return' = avg
           /\ writer' = AddScalars(writer, out)
           /\ scalars' = scalars + Len(out)
           /\ stdout' = Append(PrintedHead(avg), <<"CollisionRate", Round2(rate)>>)
    /\ pc' = "save"
    /\ UNCHANGED <<args, AgentClass, agent, episode, i, trainVars,
                   eval_sum_returns, eval_num_episodes, eval_num_collision,
                   save_model_dir, ckpts, calls, trainHist, evalHist, blocks,
                   evalSteps, error>>

\* lines 155-168 with evaluation_eps = 0: eval_num_collision / 0 raises, at
\* line 160 when the writer is on (after Eval/AverageReturns is written),
\* else at line 168 (after the five lines before it are printed)
EvalSummaryFails ==
    /\ pc = "eval"
    /\ i >= args.evaluation_eps
    /\ args.evaluation_eps = 0
    /\ LET avg == Average(eval_sum_returns, eval_num_episodes)
           out == IF ~args.tensorboard THEN <<>>
                  ELSE <<<<"Eval/AverageReturns", avg, episode>>>>
       IN  /\ eval_average_return' = avg
           /\ writer' = AddScalars(writer, out)
           /\ scalars' = scalars + Len(out)
           /\ stdout' = IF args.tensorboard THEN stdout ELSE PrintedHead(avg)
    /\ pc' = "failed"
    /\ error' = "ZeroDivisionError"
    /\ UNCHANGED <<args, AgentClass, agent, episode, i, trainVars,
                   eval_sum_returns, eval_num_episodes, eval_num_collision,
                   save_model_dir, ckpts, calls, trainHist, evalHist, blocks,
                   evalSteps>>

(* ---------------- saving the model: lines 174-184 ---------------- *)
\* the comparison with > in place of >=
ExceedsThreshold(avg, thr) == ~FracGE(Frac(thr, 1), avg)

\* eval_average_return >= args.threshold_return
MeetsThreshold(avg, thr) == FracGE(avg, Frac(thr, 1))

\* the evaluation counter written in its place
CkptEvalEpisodes == eval_num_episodes

\* the episode number written after "_ep_"
CkptEpisodes == train_num_episodes

\* the file name: env, algo, seed, episodes, and the two rounded averages
CkptPath ==
    [env |-> "sumo", algo |-> args.algo, s |-> seed, ep |-> CkptEpisodes,
     tr |-> Round2(train_average_return), er |-> Round2(eval_average_return)]

SaveModel ==
    /\ pc = "save"
    /\ MeetsThreshold(eval_average_return, args.threshold_return)
    /\ save_model_dir' = TRUE
    /\ ckpts' = Append(ckpts, CkptPath)
    /\ pc' = "loop"
    /\ UNCHANGED <<args, AgentClass, agent, episode, i, trainVars, evalVars,
                   writer, stdout, scalars, calls, trainHist, evalHist, blocks,
                   evalSteps, error>>

SkipSave ==
    /\ pc = "save"
    /\ ~MeetsThreshold(eval_average_return, args.threshold_return)
    /\ pc' = "loop"
    /\ UNCHANGED <<args, AgentClass, agent, episode, i, trainVars, evalVars,
                   outVars, calls, trainHist, evalHist, blocks, error>>

Next ==
    \/ ImportAgent
    \/ CreateAgent
    \/ CreateAgentFails
    \/ TrainEpisode
    \/ TrainRunFails
    \/ LoopExit
    \/ EvalCheckFails
    \/ SkipEval
    \/ EnterEval
    \/ EvalEpisode
    \/ EvalRunFails
    \/ EvalSummary
    \/ EvalSummaryFails
    \/ SaveModel
    \/ SkipSave

Spec == Init /\ [][Next]_vars

\* the script with an agent whose run always returns: the interpreter goes
\* on to the next statement as long as there is one
NextReturning ==
    \/ ImportAgent
    \/ CreateAgent
    \/ CreateAgentFails
    \/ TrainEpisode
    \/ LoopExit
    \/ EvalCheckFails
    \/ SkipEval
    \/ EnterEval
    \/ EvalEpisode
    \/ EvalSummary
    \/ EvalSummaryFails
    \/ SaveModel
    \/ SkipSave

SpecReturning == Init /\ [][NextReturning]_vars /\ WF_vars(NextReturning)
(***************************************************************************)
(* Properties                                                              *)
(***************************************************************************)
\* the returns of a history, and the collisions among its entries lo..hi
ReturnsOf(h) == [k \in 1..Len(h) |-> h[k][1]]
CollisionsIn(h, lo, hi) == Cardinality({k \in lo..hi : h[k][2]})

\* C1: with eval_per_train >= 1, as long as nothing has raised, the number of
\* evaluation blocks entered is the number of multiples of eval_per_train
\* among the training episodes whose boundary test has run; a block is
\* running only right after an episode that is such a multiple; and a
\* completed run has made floor(training_eps / eval_per_train) blocks,
\* whatever the earlier blocks averaged or saved.
C1_EvalBlockCount ==
    (args.eval_per_train >= 1 /\ error = "none") =>
        /\ blocks = (IF pc = "check" THEN episode - 1 ELSE episode)
                        \div args.eval_per_train
        /\ pc \in {"eval", "save"} => episode % args.eval_per_train = 0
        /\ pc = "done" =>
              /\ episode = args.training_eps
              /\ blocks = args.training_eps \div args.eval_per_train

\* a completed run whose second block followed a first block that saved nothing
C1_Witness ==
    /\ pc = "done"
    /\ args.eval_per_train = 2
    /\ args.training_eps = 4
    /\ blocks = 2
    /\ Len(ckpts) = 1
    /\ ckpts[1].ep = 4

\* C2: a step changes the list of checkpoints only by appending one path, and
\* only as the step that ends an evaluation block; that step appends a path
\* if and only if the sum of the block's returns is at least threshold_return
\* times the number of its episodes (average >= threshold, equality included).
C2_CheckpointIffThreshold ==
    [][/\ ckpts' # ckpts => (pc = "save" /\ Len(ckpts') = Len(ckpts) + 1
                              /\ SubSeq(ckpts', 1, Len(ckpts)) = ckpts)
       /\ pc = "save" =>
             ((ckpts' # ckpts) <=>
                 SumSeq(ReturnsOf(evalHist)) >= args.threshold_return * Len(evalHist))
      ]_vars

\* a checkpoint written for a block whose average equals the threshold
C2_Witness ==
    /\ pc = "loop"
    /\ Len(ckpts) = 1
    /\ ckpts[1].ep = episode
    /\ Len(evalHist) = 2
    /\ eval_sum_returns = args.threshold_return * eval_num_episodes

\* C3: a block starts with its three accumulators at zero; while it runs the
\* accumulated sum is the sum of the returns of this block's episodes alone;
\* when it ends it has made exactly evaluation_eps agent.run calls, each with
\* eval_mode True, and its average times evaluation_eps is that sum.
C3_EvalBlockMean ==
    /\ (pc = "eval" /\ i = 0) =>
          (eval_sum_returns = 0 /\ eval_num_episodes = 0 /\ eval_num_collision = 0)
    /\ pc = "eval" =>
          /\ eval_sum_returns = SumSeq(ReturnsOf(evalHist))
          /\ eval_num_episodes = Len(evalHist)
          /\ Len(evalHist) = i
    /\ pc = "save" =>
          /\ Len(evalHist) = args.evaluation_eps
          /\ \A k \in 1..Len(evalHist) : evalHist[k][2] = TRUE
          /\ calls.eval = blocks * args.evaluation_eps
          /\ eval_average_return[2] = args.evaluation_eps
          /\ FracEq(eval_average_return,
                    Frac(SumSeq(ReturnsOf(evalHist)), args.evaluation_eps))

\* the end of a second block whose average differs from the first block's
C3_Witness ==
    /\ pc = "save"
    /\ blocks = 2
    /\ args.evaluation_eps = 2
    /\ evalHist[1][1] # evalHist[2][1]
    /\ Len(ckpts) = 1
    /\ ckpts[1].er = 200

\* C4: throughout an evaluation block the training collision counter is 0,
\* with the writer on or off, and with it on the last Train/CollisionRate
\* point is at step `episode` and its value is the number of collisions among
\* the last eval_per_train training episodes divided by eval_per_train.
C4_TrainCollisionRate ==
    pc = "eval" =>
        /\ train_num_collision = 0
        /\ args.tensorboard =>
              /\ writer["Train/CollisionRate"][2] = episode
              /\ writer["Train/CollisionRate"][1][2] = args.eval_per_train
              /\ writer["Train/CollisionRate"][1][1] =
                    CollisionsIn(trainHist, episode - args.eval_per_train + 1, episode)

\* a second boundary: collisions before the first boundary, one since
C4_Witness ==
    /\ pc = "eval"
    /\ i = 0
    /\ blocks = 2
    /\ args.eval_per_train = 2
    /\ args.tensorboard
    /\ trainHist[1][2] /\ trainHist[2][2] /\ trainHist[3][2] /\ ~trainHist[4][2]
    /\ writer["Train/CollisionRate"] = <<Frac(1, 2), 4>>

\* C5: once k >= 1 training episodes have returned, the training average
\* is the sum of their k returns over k, also during and after the
\* evaluation blocks in between; with the writer on, the last
\* Train/AverageReturns point is that average at step k.
C5_TrainMean ==
    Len(trainHist) >= 1 =>
        /\ train_average_return[2] = Len(trainHist)
        /\ FracEq(train_average_return,
                  Frac(SumSeq(ReturnsOf(trainHist)), Len(trainHist)))
        /\ args.tensorboard =>
              writer["Train/AverageReturns"] = <<train_average_return, Len(trainHist)>>

\* the third training episode, after a block, with returns of both signs
C5_Witness ==
    /\ pc = "check"
    /\ Len(trainHist) = 3
    /\ blocks >= 1
    /\ calls.eval >= 1
    /\ ReturnsOf(trainHist) = <<2, -1, -1>>
    /\ train_average_return = Frac(0, 3)

\* C6: with an algorithm identifier outside the ten the script names, no
\* agent is ever constructed (the default branch of main() included), no
\* agent.run call is made, and the script ends in main() with the NameError
\* of the unbound name Agent, before the loop.
C6_UnknownAlgoFails ==
    args.algo \notin KnownAlgos =>
        /\ ~agent.constructed
        /\ calls = [train |-> 0, eval |-> 0]
        /\ episode = 0
        /\ scalars = 0
        /\ pc \in {"import", "main", "failed"}
        /\ pc = "failed" => error = "NameError"

\* the script ended at the construction of the agent
C6_Witness ==
    /\ args.algo \notin KnownAlgos
    /\ args.training_eps >= 1
    /\ pc = "failed"
    /\ error = "NameError"

\* the step is the boundary step, which resets the training collision
\* counter and the evaluation accumulators
BoundaryStep == pc = "check" /\ pc' = "eval"

\* C7 as stated: from one step to the next every field of both aggregates is
\* non-decreasing, except across the step that resets it.
C7_AllFieldsMonotone ==
    [][/\ train_num_steps' >= train_num_steps
       /\ train_num_episodes' >= train_num_episodes
       /\ train_sum_returns' >= train_sum_returns
       /\ ~BoundaryStep =>
             /\ train_num_collision' >= train_num_collision
             /\ eval_sum_returns' >= eval_sum_returns
             /\ eval_num_episodes' >= eval_num_episodes
             /\ eval_num_collision' >= eval_num_collision
      ]_vars

\* C7 (amended): the step, episode and collision counts of both aggregates
\* are non-decreasing except across the step that resets them; a sum of
\* returns changes only by the return of the episode just run, so it
\* decreases exactly across an episode whose return is negative.
C7_CountsMonotone ==
    [][/\ train_num_steps' >= train_num_steps
       /\ train_num_episodes' >= train_num_episodes
       /\ train_sum_returns' # train_sum_returns =>
             /\ Len(trainHist') = Len(trainHist) + 1
             /\ train_sum_returns' = train_sum_returns + trainHist'[Len(trainHist')][1]
       /\ Len(trainHist') = Len(trainHist) + 1 =>
             ((train_sum_returns' < train_sum_returns)
                 <=> (trainHist'[Len(trainHist')][1] < 0))
       /\ ~BoundaryStep =>
             /\ train_num_collision' >= train_num_collision
             /\ eval_num_episodes' >= eval_num_episodes
             /\ eval_num_collision' >= eval_num_collision
             /\ eval_sum_returns' # eval_sum_returns =>
                   /\ Len(evalHist') = Len(evalHist) + 1
                   /\ eval_sum_returns' = eval_sum_returns + evalHist'[Len(evalHist')][1]
      ]_vars

\* both sums have gone down and the counts have gone up
C7_Witness ==
    /\ pc = "eval"
    /\ i = 2
    /\ train_sum_returns = -2
    /\ train_num_episodes = 2
    /\ train_num_steps = 1 + max_step
    /\ eval_sum_returns = -2
    /\ eval_num_collision = 2

\* C8: the checkpoint paths of a run are pairwise different; their episode
\* fields are multiples of eval_per_train, strictly increasing from one
\* checkpoint to the next, none beyond the training episodes run so far, and
\* the one just written carries the number of training episodes completed.
C8_DistinctCheckpointPaths ==
    /\ \A j, k \in 1..Len(ckpts) :
          j < k => (ckpts[j].ep < ckpts[k].ep /\ ckpts[j] # ckpts[k])
    /\ \A j \in 1..Len(ckpts) :
          /\ args.eval_per_train >= 1
          /\ ckpts[j].ep >= args.eval_per_train
          /\ ckpts[j].ep % args.eval_per_train = 0
          /\ ckpts[j].ep <= Len(trainHist)
          /\ ckpts[j].tr = Round2(Frac(SumSeq(SubSeq(ReturnsOf(trainHist), 1, ckpts[j].ep)),
                                       ckpts[j].ep))

\* two checkpoints whose names differ in the episode field alone
C8_Witness ==
    /\ Len(ckpts) = 2
    /\ ckpts[1].ep = 1
    /\ ckpts[2].ep = 2
    /\ ckpts[1].tr = ckpts[2].tr
    /\ ckpts[1].er = ckpts[2].er

\* what the script has done that can be seen from outside
Observable == <<calls, scalars, writer, stdout, ckpts, save_model_dir>>

\* C9: the step in which agent.run raises leaves the script failed without
\* a scalar, a printed block or a checkpoint, and no step follows it: no
\* further agent.run call, scalar or checkpoint.
C9_RunFailureIsFatal ==
    [][/\ (error = "none" /\ error' = "RunError") =>
             /\ pc' = "failed"
             /\ UNCHANGED <<scalars, writer, stdout, ckpts, save_model_dir>>
             /\ UNCHANGED <<trainVars, evalVars>>
       /\ error = "RunError" =>
             /\ pc = "failed"
             /\ UNCHANGED Observable
      ]_vars

\* agent.run raised in a training episode that follows a completed block,
\* with training episodes still to run
C9_Witness ==
    /\ error = "RunError"
    /\ pc = "failed"
    /\ blocks = 1
    /\ calls.train = 2
    /\ Len(trainHist) = 1
    /\ args.training_eps = 3

\* C11: a step that makes a training agent.run call leaves eval_mode False
\* for it, and every completed training episode ran with the flag False,
\* the one right after a block included; from the end of a block's last
\* episode to the next training episode no agent.run call is made: the
\* summary leads to the checkpoint decision and that to the loop head.
C11_TrainingRunsInLearningMode ==
    [][/\ calls'.train # calls.train =>
             (pc = "loop" /\ calls'.eval = calls.eval /\ agent'.eval_mode = FALSE)
       /\ \A k \in 1..Len(trainHist') : trainHist'[k][3] = FALSE
       /\ (pc = "eval" /\ i >= args.evaluation_eps) =>
             (calls' = calls /\ pc' \in {"save", "failed"})
       /\ pc = "save" => (calls' = calls /\ pc' = "loop")
       /\ (pc = "loop" /\ pc' = "check") => calls'.train = calls.train + 1
      ]_vars

\* the training episode that follows a block of two evaluation episodes
C11_Witness ==
    /\ pc = "check"
    /\ blocks = 1
    /\ calls = [train |-> 2, eval |-> 2]
    /\ Len(trainHist) = 2
    /\ evalHist[2][2] = TRUE
    /\ agent.eval_mode = FALSE

\* floor(n / c) and "c divides n", read for c >= 1 only
FloorDiv(n, c) == IF c >= 1 THEN n \div c ELSE 0
Divides(c, n) == c >= 1 /\ n % c = 0

\* C12: with a recognised algorithm, eval_per_train >= 1, evaluation_eps
\* >= 1 and an agent whose run always returns, the script reaches its end,
\* and there it has made training_eps training calls and evaluation_eps *
\* floor(training_eps / eval_per_train) evaluation calls; when training_eps
\* is a positive multiple of eval_per_train nothing has run since the last
\* block: its evaluation_eps episodes are the latest calls and eval_mode is
\* still True.
C12_Terminates ==
    (args.algo \in KnownAlgos /\ args.eval_per_train >= 1 /\ args.evaluation_eps >= 1)
        => <>(/\ pc = "done"
              /\ error = "none"
              /\ calls.train = args.training_eps
              /\ Len(trainHist) = args.training_eps
              /\ calls.eval = args.evaluation_eps
                                * FloorDiv(args.training_eps, args.eval_per_train)
              /\ (args.training_eps > 0
                    /\ Divides(args.eval_per_train, args.training_eps)) =>
                    /\ agent.eval_mode = TRUE
                    /\ i = args.evaluation_eps
                    /\ Len(evalHist) = args.evaluation_eps
                    /\ blocks * args.eval_per_train = args.training_eps)

\* the end of a run of four training episodes and two blocks
C12_Witness ==
    /\ pc = "done"
    /\ args.training_eps = 4
    /\ args.eval_per_train = 2
    /\ args.evaluation_eps = 1
    /\ calls = [train |-> 4, eval |-> 2]
    /\ agent.eval_mode = TRUE

StrictlyIncreasing(seq) == \A k \in 1..(Len(seq) - 1) : seq[k] < seq[k + 1]

\* the steps of the Eval/EpisodeReturns points are the ones C13 names: the
\* k-th point of the run belongs to block (k-1) div evaluation_eps + 1,
\* triggered at that many times eval_per_train, and is its episode number
\* (k-1) mod evaluation_eps; with the writer on there is one point for
\* every evaluation episode completed
EvalStepsAsComputed ==
    /\ \A k \in 1..Len(evalSteps) :
          evalSteps[k] = (((k - 1) \div args.evaluation_eps) + 1) * args.eval_per_train
                            - args.evaluation_eps + ((k - 1) % args.evaluation_eps)
    /\ (args.tensorboard /\ blocks >= 1) =>
          Len(evalSteps) = (blocks - 1) * args.evaluation_eps + Len(evalHist)
    /\ ~args.tensorboard => evalSteps = <<>>

\* C13 as stated: the steps are as computed, and in a completed run of two
\* or more blocks with eval_per_train # evaluation_eps their sequence is not
\* strictly increasing.
C13_NotIncreasingWheneverDifferent ==
    args.eval_per_train >= 1 =>
        /\ EvalStepsAsComputed
        /\ (pc = "done" /\ blocks >= 2 /\ args.tensorboard
              /\ args.evaluation_eps >= 1
              /\ args.eval_per_train # args.evaluation_eps) =>
              ~StrictlyIncreasing(evalSteps)

\* C13 (amended): the steps are as computed; their sequence stops being
\* strictly increasing with the first point of the second block when
\* evaluation_eps > eval_per_train, and is strictly increasing throughout
\* when evaluation_eps <= eval_per_train.
C13_NotIncreasingWhenBlockLonger ==
    args.eval_per_train >= 1 =>
        /\ EvalStepsAsComputed
        /\ args.evaluation_eps <= args.eval_per_train => StrictlyIncreasing(evalSteps)
        /\ (args.evaluation_eps > args.eval_per_train
              /\ Len(evalSteps) > args.evaluation_eps) => ~StrictlyIncreasing(evalSteps)

\* two blocks of two episodes, one training episode apart
C13_Witness ==
    /\ args.eval_per_train = 1
    /\ args.evaluation_eps = 2
    /\ pc = "done"
    /\ blocks = 2
    /\ evalSteps = <<-1, 0, 0, 1>>

\* the mean of the training returns recorded so far
TrainHistMean == Frac(SumSeq(ReturnsOf(trainHist)), Len(trainHist))

\* C14: no step of an evaluation block (its episodes, its summary, its
\* checkpoint decision) changes train_num_steps, train_sum_returns,
\* train_num_episodes or the training average; after every step
\* train_num_episodes is the number of training episodes completed and
\* train_sum_returns the sum of their returns; the Episodes and
\* AverageReturn a block prints, and the episode field and training average
\* of a checkpoint name, are that number and the mean of those returns.
C14_EvalLeavesTrainingAggregate ==
    [][/\ pc \in {"eval", "save"} =>
             UNCHANGED <<train_num_steps, train_sum_returns, train_num_episodes,
                         train_average_return>>
       /\ train_num_episodes' = Len(trainHist')
       /\ train_num_episodes' = calls'.train - (IF error' = "RunError" /\ pc = "loop"
                                                THEN 1 ELSE 0)
       /\ train_sum_returns' = SumSeq(ReturnsOf(trainHist'))
       /\ stdout' # stdout =>
             /\ stdout'[2] = <<"Episodes", Len(trainHist)>>
             /\ stdout'[3] = <<"AverageReturn", Round2(TrainHistMean)>>
             /\ stdout'[4] = <<"EvalEpisodes", Len(evalHist)>>
       /\ ckpts' # ckpts =>
             /\ ckpts'[Len(ckpts')].ep = Len(trainHist)
             /\ ckpts'[Len(ckpts')].tr = Round2(TrainHistMean)
      ]_vars

\* a checkpoint written after two training and two evaluation episodes
C14_Witness ==
    /\ pc = "loop"
    /\ episode = 2
    /\ calls = [train |-> 2, eval |-> 2]
    /\ ReturnsOf(trainHist) = <<-1, 2>>
    /\ eval_sum_returns = 4
    /\ train_sum_returns = 1
    /\ Len(ckpts) = 1
    /\ ckpts[1].ep = 2
    /\ ckpts[1].tr = 50
    /\ stdout[2] = <<"Episodes", 2>>

\* a rate the writer holds under tag is unwritten or a fraction in [0, 1]
RateInUnitInterval(tag) ==
    writer[tag] # NoScalar =>
        (writer[tag][1][2] >= 1 /\ 0 <= writer[tag][1][1]
            /\ writer[tag][1][1] <= writer[tag][1][2])

\* C15: with eval_per_train >= 1 and evaluation_eps >= 1 the training
\* collision counter is at most the number of training episodes completed
\* since the last boundary, which is at most eval_per_train; the evaluation
\* collision counter is at most the number of evaluation episodes of the
\* current block, which is at most evaluation_eps; and every collision rate
\* written or printed lies between 0 and 1.
C15_CollisionRatesInUnitInterval ==
    (args.eval_per_train >= 1 /\ args.evaluation_eps >= 1) =>
        /\ 0 <= train_num_collision
        /\ train_num_collision <= Len(trainHist) - blocks * args.eval_per_train
        /\ Len(trainHist) - blocks * args.eval_per_train <= args.eval_per_train
        /\ 0 <= eval_num_collision
        /\ eval_num_collision <= Len(evalHist)
        /\ Len(evalHist) <= args.evaluation_eps
        /\ RateInUnitInterval("Train/CollisionRate")
        /\ RateInUnitInterval("Eval/CollisionRate")
        /\ Len(stdout) = 6 => (0 <= stdout[6][2] /\ stdout[6][2] <= 100)

\* a block after which both rates are 1: every episode had a collision
C15_Witness ==
    /\ pc = "save"
    /\ args.eval_per_train = 2
    /\ args.evaluation_eps = 2
    /\ writer["Train/CollisionRate"] = <<Frac(2, 2), 2>>
    /\ writer["Eval/CollisionRate"] = <<Frac(2, 2), 2>>
    /\ stdout[6] = <<"CollisionRate", 100>>

\* C16: with evaluation_eps = 0 and eval_per_train >= 1 at most one block
\* is entered, after training episode eval_per_train; it makes no agent.run
\* call and ends in ZeroDivisionError with the average 0.0 already computed
\* (written as Eval/AverageReturns when the writer is on, printed when it is
\* off) and no collision rate out; the checkpoint decision is never reached,
\* nothing is saved whatever the threshold, and no training episode follows.
C16_EmptyBlockFails ==
    (args.evaluation_eps = 0 /\ args.eval_per_train >= 1) =>
        /\ calls.eval = 0
        /\ ckpts = <<>>
        /\ ~save_model_dir
        /\ pc # "save"
        /\ blocks <= 1
        /\ calls.train <= args.eval_per_train
        /\ pc = "done" => args.training_eps < args.eval_per_train
        /\ blocks = 1 =>
              /\ episode = args.eval_per_train
              /\ Len(trainHist) = args.eval_per_train
              /\ pc \in {"eval", "failed"}
        /\ (blocks = 1 /\ pc = "failed") =>
              /\ error = "ZeroDivisionError"
              /\ eval_average_return = Frac(0, 1)
              /\ writer["Eval/CollisionRate"] = NoScalar
              /\ args.tensorboard =>
                    writer["Eval/AverageReturns"] = <<Frac(0, 1), episode>>
              /\ ~args.tensorboard =>
                    (Len(stdout) = 5 /\ stdout[5] = <<"EvalAverageReturn", 0>>)

\* the empty block has failed with a threshold its average 0.0 would meet
\* and training episodes left to run
C16_Witness ==
    /\ args.evaluation_eps = 0
    /\ args.eval_per_train = 1
    /\ args.training_eps = 3
    /\ args.threshold_return = 0
    /\ pc = "failed"
    /\ error = "ZeroDivisionError"
    /\ blocks = 1
    /\ calls = [train |-> 1, eval |-> 0]
    /\ MeetsThreshold(eval_average_return, args.threshold_return)

====
